---- MODULE Spec2Model ----
(***************************************************************************)
(* Model of fund_app.py: the historical fetch get_fund_data_v2 (retry,     *)
(* column recovery, cleaning, Bollinger bands, per-row signal) behind      *)
(* st.cache_data, the two real-time retry loops, the detail page           *)
(* (render_detail_page) and the batch overview (render_overview_page).     *)
(*                                                                         *)
(* Numbers: net values are counted in hundredths (1.00 is 100, 0.01 is 1,  *)
(* 20 is 2000).  Dates are day numbers.  Arithmetic is exact: a band       *)
(* MB +/- 2*STD is kept as the window's sum and sum of squares and is      *)
(* compared without rounding.                                              *)
(*                                                                         *)
(* Column names (ASCII stand-ins for the provider's names):                *)
(*   "jzrq" net-value date   (contains the date marker)                    *)
(*   "dwjz" unit net value   (contains the unit-net-value marker)          *)
(*   "rzzl" daily growth rate                                              *)
(*   "ljjz" cumulative net value, "xh" row number: no marker               *)
(* Signals: "InsufficientData", "Sell", "Buy", "Hold" stand for the four   *)
(* display strings of the program.                                         *)
(***************************************************************************)
EXTENDS Integers, Sequences, FiniteSets, TLC

(***************************************************************************)
(* Program constants                                                       *)
(***************************************************************************)
retries == 3
bulk_retries == 3
one_retries == 3
window == 20
band_k == 2
min_rows == 5000
max_workers == 20

(***************************************************************************)
(* Bounds of the model                                                     *)
(***************************************************************************)
MaxTail == 1
MaxRuns == 2
MaxCodes == 2
MaxTasks == 22

(***************************************************************************)
(* Cells of a provider table and of a quote                                *)
(***************************************************************************)
Num(v) == [k |-> "num", v |-> v]
Day(d) == [k |-> "date", v |-> d]
Str == [k |-> "str", v |-> 0]
Blank == [k |-> "blank", v |-> 0]
Null == [k |-> "null", v |-> 0]

NaV == [na |-> TRUE, v |-> 0]
Val(v) == [na |-> FALSE, v |-> v]

\* pd.to_datetime(x, errors="coerce"): a date parses, a number is taken as
\* nanoseconds after the epoch (day 0), anything else becomes NaT.
to_datetime(c) ==
  IF c.k = "date" THEN Val(c.v)
  ELSE IF c.k = "num" THEN Val(0)
  ELSE NaV

\* pd.to_numeric(x, errors="coerce"): a number parses, anything else is NaN.
to_numeric(c) ==
  IF c.k = "num" THEN Val(c.v) ELSE NaV

\* float(x) of Python: raises (ok = FALSE) on text that is no number.
float(c) ==
  IF c.k = "num" THEN [ok |-> TRUE, v |-> c.v] ELSE [ok |-> FALSE, v |-> 0]

\* pd.isna(x) or x == "" or x == "-" as the overview tests a quote field.
is_missing(c) == c.k \in {"null", "blank", "dash"}

(***************************************************************************)
(* Column recovery (get_fund_data_v2, lines 63-83)                         *)
(***************************************************************************)
col_map(c) ==
  IF c \in {"jzrq"} THEN "date"
  ELSE IF c \in {"dwjz"} THEN "value"
  ELSE c

renamed(cols) == [i \in 1..Len(cols) |-> col_map(cols[i])]

InCols(cols, name) == \E i \in 1..Len(cols) : cols[i] = name

IndexOf(cols, name) == CHOOSE i \in 1..Len(cols) :
  /\ cols[i] = name
  /\ \A j \in 1..(i - 1) : cols[j] # name

\* a recovery that takes the last column as the value
last_column_value(cols) ==
  [ok |-> Len(cols) >= 2, d |-> 1, v |-> Len(cols)]

\* [ok, d, v]: the positions of the columns used as date and value.
resolve_columns(cols) ==
  LET rn == renamed(cols) IN
  IF InCols(rn, "date") /\ InCols(rn, "value")
  THEN [ok |-> TRUE, d |-> IndexOf(rn, "date"), v |-> IndexOf(rn, "value")]
  ELSE IF Len(cols) >= 2
  THEN [ok |-> TRUE, d |-> 1, v |-> 2]
  ELSE [ok |-> FALSE, d |-> 0, v |-> 0]

(***************************************************************************)
(* Cleaning (lines 85-94)                                                  *)
(***************************************************************************)
coerce(rows, d, v) ==
  [i \in 1..Len(rows) |->
     [date |-> to_datetime(rows[i][d]), value |-> to_numeric(rows[i][v])]]

KeepRow(r) == ~r.date.na /\ ~r.value.na

dropna(rows) ==
  LET kept == SelectSeq(rows, KeepRow) IN
  [i \in 1..Len(kept) |-> [date |-> kept[i].date.v, value |-> kept[i].value.v]]

RECURSIVE InsertByDate(_, _)
InsertByDate(s, r) ==
  IF s = <<>> THEN <<r>>
  ELSE IF s[Len(s)].date <= r.date THEN Append(s, r)
  ELSE Append(InsertByDate(SubSeq(s, 1, Len(s) - 1), r), s[Len(s)])

RECURSIVE sort_values(_)
sort_values(rows) ==
  IF rows = <<>> THEN <<>>
  ELSE InsertByDate(sort_values(SubSeq(rows, 1, Len(rows) - 1)), rows[Len(rows)])

clean(rows, d, v) == sort_values(dropna(coerce(rows, d, v)))

(***************************************************************************)
(* Bollinger band (lines 99-118)                                           *)
(***************************************************************************)
NaNBand == [k |-> "nan", S |-> 0, Q |-> 0]
ZeroBand == [k |-> "zero", S |-> 0, Q |-> 0]

RECURSIVE SumFrom(_, _, _)
SumFrom(rows, lo, hi) ==
  IF lo > hi THEN 0 ELSE rows[hi].value + SumFrom(rows, lo, hi - 1)

RECURSIVE SqFrom(_, _, _)
SqFrom(rows, lo, hi) ==
  IF lo > hi THEN 0 ELSE rows[hi].value * rows[hi].value + SqFrom(rows, lo, hi - 1)

\* rolling(window=20).mean()/.std() at row i (1-based): NaN before the
\* 20th row, else the window i-19..i.
rolling(rows, i) ==
  IF i < window THEN NaNBand
  ELSE [k |-> "win",
        S |-> SumFrom(rows, i - window + 1, i),
        Q |-> SqFrom(rows, i - window + 1, i)]

\* a*x > b*y for x, y >= 0 without leaving 32 bits.
MulGt(a, x, b, y) ==
  LET q == x \div b
      r == x % b
      p == y \div a
      s == y % a
  IN IF q # p THEN q > p ELSE a * r > b * s

\* |v - MB| > band_k * STD, with MB = S/n and STD^2 = (n*Q - S*S)/(n*(n-1)):
\* (n-1)*(n*v - S)^2 > band_k^2 * n * (n*Q - S*S).
Outside(v, b) ==
  LET d == window * v - b.S
      V == window * b.Q - b.S * b.S
  IN MulGt(window - 1, d * d, band_k * band_k * window, V)

\* v > UB
GtUB(v, b) ==
  IF b.k = "nan" THEN FALSE
  ELSE IF b.k = "zero" THEN v > 0
  ELSE (window * v - b.S > 0) /\ Outside(v, b)

\* v < LB
LtLB(v, b) ==
  IF b.k = "nan" THEN FALSE
  ELSE IF b.k = "zero" THEN v < 0
  ELSE (window * v - b.S < 0) /\ Outside(v, b)

get_signal(v, b) ==
  IF b.k = "nan" THEN "InsufficientData"
  ELSE IF GtUB(v, b) THEN "Sell"
  ELSE IF LtLB(v, b) THEN "Buy"
  ELSE "Hold"

(***************************************************************************)
(* Data frames and the result triple of get_fund_data_v2                   *)
(***************************************************************************)
\* A frame: none = the Python None; has_ub = the columns MB/STD/UB/LB exist;
\* has_sig = the signal column exists.  A row is [date, value, band, sig].
NoneDF == [none |-> TRUE, rows |-> <<>>, has_ub |-> FALSE, has_sig |-> FALSE]
EmptyDF == [none |-> FALSE, rows |-> <<>>, has_ub |-> FALSE, has_sig |-> FALSE]

PlainRow(r) == [date |-> r.date, value |-> r.value, band |-> NaNBand, sig |-> "NaN"]

\* lines 101-118: bands and signal on every row
with_bands(rows) ==
  [i \in 1..Len(rows) |->
     [date |-> rows[i].date, value |-> rows[i].value,
      band |-> rolling(rows, i),
      sig |-> get_signal(rows[i].value, rolling(rows, i))]]

\* lines 99-120
bollinger(rows) ==
  IF Len(rows) >= window
  THEN [none |-> FALSE, rows |-> with_bands(rows), has_ub |-> TRUE, has_sig |-> TRUE]
  ELSE [none |-> FALSE, rows |-> [i \in 1..Len(rows) |-> PlainRow(rows[i])],
        has_ub |-> FALSE, has_sig |-> FALSE]

NoTable == [cols |-> <<>>, rows |-> <<>>]

Triple(df, err) == [df |-> df, rt |-> "None", err |-> err, raised |-> FALSE]

\* lines 53-56: the handler around fetch_with_retry turns a raise into None
try_fetch(out) == IF out.raised THEN [none |-> TRUE, tab |-> NoTable] ELSE out

\* lines 50-129 after the fetch: out is what fetch_with_retry gave,
\* [raised, none, tab]
get_fund_data_v2_body(out) ==
  LET raw_df == try_fetch(out) IN
  IF raw_df.none \/ raw_df.tab.rows = <<>>
  THEN Triple(NoneDF, "no_data")
  ELSE LET rc == resolve_columns(raw_df.tab.cols) IN
       IF ~rc.ok THEN Triple(NoneDF, "bad_columns")
       ELSE Triple(bollinger(clean(raw_df.tab.rows, rc.d, rc.v)), "None")

(***************************************************************************)
(* The provider's tables the model draws from                              *)
(***************************************************************************)
Today == window + MaxTail + 5

\* A tail row: how its date is made and its value cell.
TailRows ==
  { [d |-> "seq", v |-> Num(100)], [d |-> "seq", v |-> Num(130)],
    [d |-> "seq", v |-> Num(70)], [d |-> "seq", v |-> Num(1)],
    [d |-> "seq", v |-> Num(2000)], [d |-> "seq", v |-> Str],
    [d |-> "bad", v |-> Num(100)], [d |-> "today", v |-> Num(100)],
    [d |-> "early", v |-> Num(130)], [d |-> "same", v |-> Num(70)] }

Tails == UNION { [1..n -> TailRows] : n \in 0..MaxTail }

PrefixLens == {0, window - 2, window - 1, window}

\* The i-th prefix row's value: one high first row, then a flat series.
PrefixValue(i) == IF i = 1 THEN Num(130) ELSE Num(100)

Layouts == {"std", "swapped", "anon", "one"}

LayoutCols(l) ==
  IF l = "std" THEN <<"jzrq", "dwjz", "rzzl">>
  ELSE IF l = "swapped" THEN <<"dwjz", "jzrq">>
  ELSE IF l = "anon" THEN <<"c0", "c1">>
  ELSE <<"c0">>

LayoutRow(l, d, v) ==
  IF l = "std" THEN <<d, v, Num(0)>>
  ELSE IF l = "swapped" THEN <<v, d>>
  ELSE IF l = "anon" THEN <<d, v>>
  ELSE <<v>>

TailDate(t, pos) ==
  IF t.d = "seq" THEN Day(pos)
  ELSE IF t.d = "today" THEN Day(Today)
  ELSE IF t.d = "early" THEN Day(0)
  ELSE IF t.d = "same" THEN Day(pos - 1)
  ELSE Str

MkTable(l, n, tail) ==
  [cols |-> LayoutCols(l),
   rows |-> [i \in 1..(n + Len(tail)) |->
               IF i <= n THEN LayoutRow(l, Day(i), PrefixValue(i))
               ELSE LayoutRow(l, TailDate(tail[i - n], i), tail[i - n].v)]]

\* A table whose column named as the unit value holds the row index 0, 1,
\* 2, ... while a third column (the accumulated value) holds the prices.
MkIndexed(n, tail) ==
  [cols |-> <<"jzrq", "dwjz", "ljjz">>,
   rows |-> [i \in 1..(n + Len(tail)) |->
               IF i <= n THEN <<Day(i), Num(100 * (i - 1)), PrefixValue(i)>>
               ELSE <<TailDate(tail[i - n], i), Num(100 * (i - 1)), tail[i - n].v>>]]

RawTables ==
  { MkTable("std", n, t) : n \in PrefixLens, t \in Tails }
  \cup { MkIndexed(window - 1, t) : t \in { u \in Tails : Len(u) <= 1 } }
  \cup { MkTable(l, n, t) : l \in Layouts \ {"std"}, n \in {0, window - 1},
                            t \in { u \in Tails : Len(u) <= 1 } }

(***************************************************************************)
(* Quotes of the real-time endpoints                                       *)
(***************************************************************************)
Dash == [k |-> "dash", v |-> 0]

\* gsz: estimated value, gszzl: estimated change, dwjz: yesterday's value
Q(g, r, d) == [gsz |-> g, gszzl |-> r, dwjz |-> d]

Quotes ==
  { Q(Num(100), Num(0), Num(100)), Q(Num(130), Num(0), Num(100)),
    Q(Num(70), Num(0), Num(100)), Q(Num(0), Num(0), Num(100)),
    Q(Num(0 - 5), Num(0), Num(100)), Q(Str, Num(0), Num(100)),
    Q(Blank, Dash, Num(130)), Q(Num(130), Str, Num(100)) }

NoQ == Q(Null, Null, Null)
NoQuote == [has |-> FALSE, q |-> NoQ]

(***************************************************************************)
(* The three retry loops                                                   *)
(***************************************************************************)
\* A loop's position: i attempts done; calls = transport invocations,
\* fails = attempts that gave nothing usable, excs = those of them that
\* raised, slept = calls of time.sleep; out = "none" while running, then
\* "ok" or "fail".  (last_err, which only feeds the message of the final
\* raise or print, is not kept.)
Loop0 == [i |-> 0, calls |-> 0, fails |-> 0, excs |-> 0, slept |-> 0,
          out |-> "none"]

\* a loop that runs one iteration more than range(n)
one_more_attempt(i, n) == i + 1 <= n

\* for i in range(n): is there another iteration after attempt i (0-based)
more_attempts(i, n) == i + 1 < n

\* an attempt that gave nothing usable; raised = it ended in the except
\* clause, sleeps = the iteration reaches a time.sleep
failed_attempt(l, n, raised, sleeps) ==
  [i |-> l.i + 1, calls |-> l.calls + 1, fails |-> l.fails + 1,
   excs |-> l.excs + (IF raised THEN 1 ELSE 0),
   slept |-> l.slept + (IF sleeps THEN 1 ELSE 0),
   out |-> IF more_attempts(l.i, n) THEN "none" ELSE "fail"]

good_attempt(l) ==
  [i |-> l.i, calls |-> l.calls + 1, fails |-> l.fails, excs |-> l.excs,
   slept |-> l.slept, out |-> "ok"]

HistResponses ==
  { [kind |-> "raise", tab |-> NoTable], [kind |-> "None", tab |-> NoTable] }
  \cup { [kind |-> "table", tab |-> t] : t \in RawTables }

\* lines 45-47: the sleep of a failed iteration is commented out
hist_sleeps(resp) == FALSE

\* lines 36-48, one iteration: res usable = not None and not an empty frame
fetch_with_retry(l, resp) ==
  IF resp.kind = "table" /\ resp.tab.rows # <<>>
  THEN good_attempt(l)
  ELSE failed_attempt(l, retries, resp.kind = "raise", hist_sleeps(resp))

OneResponses ==
  { [kind |-> k, q |-> NoQ] : k \in {"exc", "status", "prefix", "nomatch"} }
  \cup { [kind |-> "ok", q |-> q] : q \in Quotes }

\* lines 321-322: time.sleep(0.5) stands in the except clause
one_sleeps(resp) == resp.kind = "exc"

\* lines 301-323, one iteration
get_realtime_fund_one(l, resp) ==
  IF resp.kind = "ok" THEN good_attempt(l)
  ELSE failed_attempt(l, one_retries, resp.kind = "exc", one_sleeps(resp))

\* A snapshot of all funds: len rows; has = it holds a row for the code
Snapshots ==
  { [kind |-> "frame", len |-> n, has |-> h, q |-> q] :
      n \in {1, min_rows, min_rows + 1}, h \in {TRUE}, q \in Quotes }
  \cup { [kind |-> "frame", len |-> n, has |-> FALSE, q |-> NoQ] :
      n \in {0, min_rows + 1} }

BulkResponses ==
  { [kind |-> k, len |-> 0, has |-> FALSE, q |-> NoQ] : k \in {"exc", "None"} }
  \cup Snapshots

\* a loop that waits only after an exception
sleeps_on_exception(resp) == resp.kind = "exc"

\* lines 282-285: every iteration that did not return reaches the sleep
bulk_sleeps(resp) == TRUE

\* a size check that lets a snapshot of exactly the minimum through
accepts_minimum(l, resp) ==
  IF resp.kind = "frame" /\ resp.len # 0 /\ resp.len >= min_rows
  THEN good_attempt(l)
  ELSE failed_attempt(l, bulk_retries, resp.kind = "exc", bulk_sleeps(resp))

\* lines 270-290, one iteration
get_all_fund_estimation(l, resp) ==
  IF resp.kind = "frame" /\ resp.len # 0 /\ resp.len > min_rows
  THEN good_attempt(l)
  ELSE failed_attempt(l, bulk_retries, resp.kind = "exc", bulk_sleeps(resp))

(***************************************************************************)
(* st.cache_data around get_fund_data_v2 (line 24)                         *)
(***************************************************************************)
NoTriple == Triple(NoneDF, "None")
NoEntry == [has |-> FALSE, val |-> NoTriple]

\* a cache that files every call under one key
shared_key(c) == 1

\* the key st.cache_data files a call under: the function's argument
cache_key(c) == c

\* a cache that keeps successful results only
store_successes(c, code_, triple) ==
  IF triple.err = "None" THEN [c EXCEPT ![code_] = [has |-> TRUE, val |-> triple]]
  ELSE c

\* the decorator stores whatever the function returned, under its argument
cache_store(c, code_, triple) ==
  [c EXCEPT ![cache_key(code_)] = [has |-> TRUE, val |-> triple]]

\* st.cache_data.clear() (lines 363, 773)
cache_clear(c) == [k \in DOMAIN c |-> NoEntry]

(***************************************************************************)
(* The detail page after its fetches (lines 815-960)                       *)
(***************************************************************************)
\* pd.concat([df, new_row]) and the recomputation of lines 864-875
concat_recompute(df, v) ==
  LET plain == [i \in 1..(Len(df.rows) + 1) |->
                  IF i <= Len(df.rows)
                  THEN [date |-> df.rows[i].date, value |-> df.rows[i].value]
                  ELSE [date |-> Today, value |-> v]]
  IN [none |-> FALSE, rows |-> with_bands(plain), has_ub |-> TRUE, has_sig |-> TRUE]

\* line 857: float(raw_rate) unless the rate is "-"
rate_raises(c) == c.k \notin {"num", "dash"}

\* lines 824-883: [df, curr_val]
detail_quote(df, rt) ==
  LET latest == df.rows[Len(df.rows)]
      f == float(rt.q.gsz)
  IN IF ~rt.has \/ ~f.ok
     THEN [df |-> df, curr_val |-> latest.value]
     ELSE IF latest.date < Today /\ f.v > 0 /\ ~rate_raises(rt.q.gszzl)
     THEN [df |-> concat_recompute(df, f.v), curr_val |-> f.v]
     ELSE [df |-> df, curr_val |-> f.v]

\* a recommendation that sells at the upper band already
detail_signal_loose(curr_val, b) ==
  LET d == window * curr_val - b.S
      V == window * b.Q - b.S * b.S
  IN IF GtUB(curr_val, b) THEN "Sell"
     ELSE IF b.k = "win" /\ d >= 0
             /\ ~MulGt(band_k * band_k * window, V, window - 1, d * d)
     THEN "Sell"
     ELSE IF LtLB(curr_val, b) THEN "Buy"
     ELSE "Hold"

\* lines 950-960
detail_signal(curr_val, b) ==
  IF GtUB(curr_val, b) THEN "Sell"
  ELSE IF LtLB(curr_val, b) THEN "Buy"
  ELSE "Hold"

NoPage ==
  [shown |-> "none", rows |-> <<>>, curr_val |-> 0, band |-> NaNBand,
   signal |-> "none"]

\* lines 815-960
render_detail(triple, rt) ==
  IF triple.err # "None" THEN [NoPage EXCEPT !.shown = "error"]
  ELSE IF triple.df.none \/ triple.df.rows = <<>>
  THEN [NoPage EXCEPT !.shown = "no_history"]
  ELSE LET dq == detail_quote(triple.df, rt)
           latest == dq.df.rows[Len(dq.df.rows)]
           b == IF dq.df.has_ub THEN latest.band ELSE ZeroBand
       IN [shown |-> "ok", rows |-> dq.df.rows, curr_val |-> dq.curr_val,
           band |-> b, signal |-> detail_signal(dq.curr_val, b)]

(***************************************************************************)
(* The overview page's computations (lines 409-612)                        *)
(***************************************************************************)
NoEst == [has |-> FALSE, v |-> 0]

\* lines 412-422: the entry of est_map a result row gives, if any
est_of(q) ==
  IF is_missing(q.gsz) \/ ~float(q.gsz).ok THEN NoEst
  ELSE [has |-> TRUE, v |-> float(q.gsz).v]

\* lines 463-479: the appended row and the recomputed bands (the signal
\* column is left as it was; the new row has none)
overview_concat(df, v) ==
  LET n == Len(df.rows)
      plain == [i \in 1..(n + 1) |->
                  IF i <= n
                  THEN [date |-> df.rows[i].date, value |-> df.rows[i].value]
                  ELSE [date |-> Today, value |-> v]]
  IN [none |-> FALSE,
      rows |-> [i \in 1..(n + 1) |->
                  [date |-> plain[i].date, value |-> plain[i].value,
                   band |-> rolling(plain, i),
                   sig |-> IF i <= n THEN df.rows[i].sig ELSE "NaN"]],
      has_ub |-> TRUE, has_sig |-> df.has_sig]

\* lines 455-479: the frame the statistics are read from
overview_frame(df, current_est) ==
  IF current_est.has /\ df.rows[Len(df.rows)].date < Today
  THEN overview_concat(df, current_est.v)
  ELSE df

\* lines 438-445
default_stats(c) ==
  [code |-> c, UB |-> "None", LB |-> "None", advice |-> "InsufficientData",
   has_raw |-> FALSE, ub_raw |-> NaNBand, latest |-> NoEst]

\* lines 431-518, given the triple get_fund_data_v2 returned
fetch_single_fund_stats(c, current_est, triple) ==
  IF triple.df.none \/ triple.df.rows = <<>> THEN default_stats(c)
  ELSE LET df == overview_frame(triple.df, current_est)
           latest == df.rows[Len(df.rows)]
           shown == IF df.has_ub /\ latest.band.k # "nan" THEN "text" ELSE "None"
       IN [code |-> c, UB |-> shown, LB |-> shown, advice |-> "InsufficientData",
           has_raw |-> df.has_ub,
           ub_raw |-> IF df.has_ub THEN latest.band ELSE NaNBand,
           latest |-> [has |-> TRUE, v |-> latest.value]]

\* lines 582-589 on a row of final_df: the value the advice is about. gsz
\* and dwjz come from the quote (Null when the code has none), the rest from
\* the statistics
final_value(gsz, dwjz, st) ==
  IF ~is_missing(gsz) THEN gsz
  ELSE IF ~is_missing(dwjz) THEN dwjz
  ELSE IF st.latest.has THEN Num(st.latest.v) ELSE Null

\* lines 593-610: the comparison of that value with the raw bands
calculate_final_signal(gsz, dwjz, st) ==
  LET curr == final_value(gsz, dwjz, st)
      f == float(curr)
  IN IF curr.k = "null" \/ ~f.ok THEN "InsufficientData"
     ELSE IF ~st.has_raw \/ st.ub_raw.k = "nan" THEN "InsufficientData"
     ELSE IF GtUB(f.v, st.ub_raw) THEN "Sell"
     ELSE IF LtLB(f.v, st.ub_raw) THEN "Buy"
     ELSE "Hold"

RECURSIVE one_loop(_, _)
\* get_realtime_fund_one against an endpoint that always answers resp
one_loop(l, resp) ==
  IF l.out # "none" THEN l ELSE one_loop(get_realtime_fund_one(l, resp), resp)

RECURSIVE hist_loop(_, _)
\* fetch_with_retry against a provider that always answers resp
hist_loop(l, resp) ==
  IF l.out # "none" THEN l ELSE hist_loop(fetch_with_retry(l, resp), resp)

\* lines 24-129 as one call: the cached triple, or the function run against
\* a provider that always answers resp
get_fund_data_v2(c, code_, resp) ==
  IF c[cache_key(code_)].has THEN c[cache_key(code_)].val
  ELSE get_fund_data_v2_body(
         [raised |-> hist_loop(Loop0, resp).out = "fail", none |-> FALSE,
          tab |-> resp.tab])

\* lines 336-337: a result is kept only when it is not None
keep_result(results_, c, resp) ==
  IF one_loop(Loop0, resp).out = "ok"
  THEN Append(results_, [code |-> c, q |-> resp.q])
  ELSE results_

\* a collection that skips the codes whose history could not be fetched
collect_fetched(stats_list_, st) ==
  IF st.latest.has THEN Append(stats_list_, st) ELSE stats_list_

\* lines 528-529
collect_stats(stats_list_, st) == Append(stats_list_, st)

Matches(seq, c) == { i \in 1..Len(seq) : seq[i].code = c }

First(S) == CHOOSE i \in S : \A j \in S : i <= j

Last(S) == CHOOSE i \in S : \A j \in S : j <= i

RECURSIVE SetToSeq(_)
SetToSeq(S) == IF S = {} THEN <<>> ELSE <<First(S)>> \o SetToSeq(S \ {First(S)})

\* lines 544-553 and 612: the two left joins on the code, then the advice.
\* A left row with no match is kept once with empty fields; one with
\* several matches is repeated.
merged_rows(c, results_, stats_list_) ==
  LET es == SetToSeq(Matches(results_, c))
      ss == SetToSeq(Matches(stats_list_, c))
      qs == IF es = <<>> THEN <<NoQ>> ELSE [i \in 1..Len(es) |-> results_[es[i]].q]
      sts == IF ss = <<>>
             THEN <<[default_stats(c) EXCEPT !.advice = "NaN"]>>
             ELSE [i \in 1..Len(ss) |-> stats_list_[ss[i]]]
  IN [k \in 1..(Len(qs) * Len(sts)) |->
        LET q == qs[((k - 1) \div Len(sts)) + 1]
            st == sts[((k - 1) % Len(sts)) + 1]
        IN [code |-> c, gsz |-> q.gsz, dwjz |-> q.dwjz, UB |-> st.UB, LB |-> st.LB,
            has_raw |-> st.has_raw, ub_raw |-> st.ub_raw, latest |-> st.latest,
            advice |-> calculate_final_signal(q.gsz, q.dwjz, st)]]

RECURSIVE final_rows(_, _, _)
final_rows(cs, results_, stats_list_) ==
  IF cs = <<>> THEN <<>>
  ELSE merged_rows(Head(cs), results_, stats_list_)
       \o final_rows(Tail(cs), results_, stats_list_)

(***************************************************************************)
(* State                                                                   *)
(***************************************************************************)
Codes == 1..MaxCodes

VARIABLES
  cache,     \* st.cache_data of get_fund_data_v2: code -> [has, val]
  since,     \* per code, what last happened to its entry:
             \* "never", "called", "cleared", "expired"
  pc,        \* the detail page's position
  code,      \* st.session_state.selected_code
  start,     \* since[code] when the running page called get_fund_data_v2
  runs,      \* page runs started
  lp,        \* the three retry loops of the running page
  raw,       \* the table fetch_with_retry handed over in this run
  hist,      \* the triple get_fund_data_v2 returned in this run
  exc,       \* an exception left get_fund_data_v2
  rt_data,   \* the quote of this run: [has, q]
  page,      \* what render_detail_page derived
  row,       \* the overview's rows for the same code, rendered after the page
  all_est_df,\* what get_all_fund_estimation returned in this run
  quoted,    \* history: an earlier run got a quote, and no clear or expiry
             \* came since (the program keeps no quote between runs)
  codes,     \* the overview's input: the set of codes
  hist_src,  \* per code, what the provider always answers
  rt_src,    \* per code, what the single-fund endpoint always answers
  phase,     \* the overview's position: "rt_pool", "hist_pool", "done"
  pending,   \* tasks submitted to the running pool, not started
  running,   \* tasks a worker of the running pool is on
  results,   \* get_batch_realtime_estimation's results list
  est_map,   \* code -> [has, v]
  stats_list,\* the statistics collected from the second pool
  final_df,  \* the rows of final_df with the advice
  n_codes,   \* len(codes) of an overview whose fetches are only counted
  queued,    \* its futures submitted and not started
  active,    \* its fetches a worker thread is running
  collected  \* its futures as_completed has yielded

run_vars == <<pc, code, start, runs, lp, raw, hist, rt_data, page, row, all_est_df>>
dvars == <<run_vars, quoted>>
bvars == <<codes, hist_src, rt_src, phase, pending, running, results, est_map,
           stats_list, final_df>>
pvars == <<n_codes, queued, active, collected>>
vars == <<cache, since, exc, dvars, bvars, pvars>>

\* what the provider and the endpoint answer a batch with
BatchTables ==
  { MkTable("std", window - 2, <<>>),
    MkTable("std", window - 1, <<[d |-> "seq", v |-> Num(130)]>>),
    MkTable("std", window, <<[d |-> "today", v |-> Num(100)]>>),
    MkTable("std", 0, <<[d |-> "seq", v |-> Str]>>) }

BatchHist ==
  { [kind |-> "raise", tab |-> NoTable], [kind |-> "None", tab |-> NoTable] }
  \cup { [kind |-> "table", tab |-> t] : t \in BatchTables }

BatchOne ==
  { [kind |-> "exc", q |-> NoQ],
    [kind |-> "ok", q |-> Q(Num(100), Num(0), Num(100))],
    [kind |-> "ok", q |-> Q(Num(0), Num(0), Num(100))],
    [kind |-> "ok", q |-> Q(Str, Num(0), Num(100))],
    [kind |-> "ok", q |-> Q(Blank, Dash, Num(130))] }

\* a code's provider and endpoint behaviours, as they occur together
BatchPairs ==
  LET raises == [kind |-> "raise", tab |-> NoTable]
      none == [kind |-> "None", tab |-> NoTable]
      tab(n, d, v) == [kind |-> "table", tab |-> MkTable("std", n, <<[d |-> d, v |-> v]>>)]
      short == [kind |-> "table", tab |-> MkTable("std", window - 2, <<>>)]
      down == [kind |-> "exc", q |-> NoQ]
      ok(g, r, d) == [kind |-> "ok", q |-> Q(g, r, d)]
  IN { [hist |-> raises, one |-> down],
       [hist |-> none, one |-> ok(Num(100), Num(0), Num(100))],
       [hist |-> short, one |-> down],
       [hist |-> tab(0, "seq", Str), one |-> ok(Blank, Dash, Num(130))],
       [hist |-> tab(window - 1, "seq", Num(130)), one |-> down],
       [hist |-> tab(window - 1, "seq", Num(130)), one |-> ok(Num(100), Num(0), Num(100))],
       [hist |-> tab(window - 1, "seq", Num(130)), one |-> ok(Num(0), Num(0), Num(100))],
       [hist |-> tab(window - 1, "seq", Num(130)), one |-> ok(Str, Num(0), Num(100))],
       [hist |-> tab(window, "today", Num(100)), one |-> ok(Num(130), Num(0), Num(100))] }

\* line 806 not reached, or get_all_fund_estimation returned None (line 290)
\* last = the row count of the latest answer (res of line 272; 0 when the
\* call raised or gave None)
NoSnapshot == [none |-> TRUE, len |-> 0, last |-> 0]

Loops0 == [n \in {"hist", "one", "bulk"} |-> Loop0]

DetailIdle ==
  /\ pc = "idle"
  /\ code = 1
  /\ start = "never"
  /\ runs = 0
  /\ lp = Loops0
  /\ raw = NoTable
  /\ hist = NoTriple
  /\ rt_data = NoQuote
  /\ page = NoPage
  /\ row = <<>>
  /\ all_est_df = NoSnapshot
  /\ quoted = FALSE

Shared0 ==
  /\ cache = [c \in Codes |-> NoEntry]
  /\ since = [c \in Codes |-> "never"]
  /\ exc = FALSE

NoHist == [kind |-> "None", tab |-> NoTable]
NoOne == [kind |-> "exc", q |-> NoQ]

BatchIdle ==
  /\ codes = {}
  /\ hist_src = [c \in Codes |-> NoHist]
  /\ rt_src = [c \in Codes |-> NoOne]
  /\ phase = "off"
  /\ pending = {}
  /\ running = {}
  /\ results = <<>>
  /\ est_map = [c \in Codes |-> NoEst]
  /\ stats_list = <<>>
  /\ final_df = <<>>

PoolIdle ==
  /\ n_codes = 0
  /\ queued = 0
  /\ active = 0
  /\ collected = 0

Init == Shared0 /\ DetailIdle /\ BatchIdle /\ PoolIdle

(***************************************************************************)
(* The detail page, step by step                                           *)
(***************************************************************************)
\* lines 771-774 (and 362-364): the refresh button clears the cache
Refresh ==
  /\ pc = "idle"
  /\ cache' = cache_clear(cache)
  /\ since' = [c \in Codes |-> "cleared"]
  /\ quoted' = FALSE
  /\ UNCHANGED <<exc, run_vars, bvars, pvars>>

\* line 24: an entry older than ttl is dropped
Expire ==
  /\ pc = "idle"
  /\ \E c \in Codes :
       /\ cache[c].has
       /\ cache' = [cache EXCEPT ![c] = NoEntry]
       /\ since' = [since EXCEPT ![c] = "expired"]
  /\ quoted' = FALSE
  /\ UNCHANGED <<exc, run_vars, bvars, pvars>>

\* line 796: the call of get_fund_data_v2, answered from the cache or run
StartDetail ==
  /\ pc = "idle"
  /\ runs < MaxRuns
  /\ runs' = runs + 1
  /\ start' = since[code]
  /\ IF cache[cache_key(code)].has
     THEN /\ hist' = cache[cache_key(code)].val
          /\ pc' = "one"
     ELSE /\ hist' = NoTriple
          /\ pc' = "hist"
  /\ UNCHANGED <<cache, since, code, lp, raw, exc, rt_data, page, row, all_est_df, quoted, bvars, pvars>>

\* lines 36-129: one attempt of fetch_with_retry; on its last, the rest of
\* get_fund_data_v2 and the decorator's store
HistAttempt ==
  /\ pc = "hist"
  /\ \E resp \in BatchHist :
       LET l == fetch_with_retry(lp["hist"], resp)
           t == get_fund_data_v2_body(
                  [raised |-> l.out = "fail", none |-> FALSE, tab |-> resp.tab])
       IN /\ lp' = [lp EXCEPT !["hist"] = l]
          /\ IF l.out = "none"
             THEN UNCHANGED <<pc, raw, hist, exc, cache, since>>
             ELSE /\ pc' = "one"
                  /\ raw' = IF l.out = "ok" THEN resp.tab ELSE NoTable
                  /\ hist' = t
                  /\ exc' = t.raised
                  /\ cache' = cache_store(cache, code, t)
                  /\ since' = [since EXCEPT ![code] = "called"]
  /\ UNCHANGED <<code, start, runs, rt_data, page, row, all_est_df, quoted, bvars, pvars>>

\* asks the bulk endpoint whatever the single-fund endpoint gave
always_bulk(out) == "bulk"

\* lines 801-805: the bulk endpoint is asked only when the single-fund
\* endpoint gave nothing (if not rt_data)
quote_fallback(out) == IF out = "ok" THEN "render" ELSE "bulk"

\* lines 799-805: one attempt of get_realtime_fund_one
OneAttempt ==
  /\ pc = "one"
  /\ \E resp \in OneResponses :
       LET l == get_realtime_fund_one(lp["one"], resp)
       IN /\ lp' = [lp EXCEPT !["one"] = l]
          /\ pc' = IF l.out = "none" THEN "one" ELSE quote_fallback(l.out)
          /\ rt_data' = IF l.out = "ok" THEN [has |-> TRUE, q |-> resp.q]
                        ELSE rt_data
  /\ UNCHANGED <<cache, since, code, start, runs, raw, hist, exc, page, row, all_est_df, quoted, bvars, pvars>>

\* lines 805-813: one attempt of get_all_fund_estimation; on success the
\* snapshot is filtered by the code
BulkAttempt ==
  /\ pc = "bulk"
  /\ \E resp \in BulkResponses :
       LET l == get_all_fund_estimation(lp["bulk"], resp)
       IN /\ lp' = [lp EXCEPT !["bulk"] = l]
          /\ pc' = IF l.out = "none" THEN "bulk" ELSE "render"
          /\ rt_data' = IF l.out = "ok" /\ resp.has
                        THEN [has |-> TRUE, q |-> resp.q]
                        ELSE rt_data
          /\ all_est_df' = IF l.out = "ok"
                           THEN [none |-> FALSE, len |-> resp.len, last |-> resp.len]
                           ELSE [all_est_df EXCEPT !.last = resp.len]
  /\ UNCHANGED <<cache, since, code, start, runs, raw, hist, exc, page, row, quoted, bvars, pvars>>

\* lines 815-960
Render ==
  /\ pc = "render"
  /\ page' = render_detail(hist, rt_data)
  /\ pc' = "done"
  /\ UNCHANGED <<cache, since, code, start, runs, lp, raw, hist, exc, rt_data, row, all_est_df, quoted, bvars, pvars>>

\* lines 409-612 for the one code, after the detail page: the overview asks
\* the single-fund endpoint, which always answers resp, and calls
\* get_fund_data_v2, which the cache answers
Overview ==
  /\ pc = "done"
  /\ row = <<>>
  /\ \E resp \in BatchOne :
       LET results_ == keep_result(<<>>, code, resp)
           est == IF results_ = <<>> THEN NoEst ELSE est_of(results_[1].q)
           t == get_fund_data_v2(cache, code, NoHist)
       IN row' = final_rows(<<code>>, results_,
                            <<fetch_single_fund_stats(code, est, t)>>)
  /\ UNCHANGED <<cache, since, pc, code, start, runs, lp, raw, hist, exc,
                 rt_data, page, all_est_df, quoted, bvars, pvars>>

\* the script ends; the next run starts from fresh locals
Rerun ==
  /\ pc = "done"
  /\ pc' = "idle"
  /\ lp' = Loops0
  /\ raw' = NoTable
  /\ hist' = NoTriple
  /\ rt_data' = NoQuote
  /\ page' = NoPage
  /\ row' = <<>>
  /\ all_est_df' = NoSnapshot
  /\ quoted' = (quoted \/ rt_data.has)
  /\ UNCHANGED <<cache, since, code, start, runs, exc, bvars, pvars>>

Next ==
  \/ Refresh
  \/ Expire
  \/ StartDetail
  \/ HistAttempt
  \/ OneAttempt
  \/ BulkAttempt
  \/ Render
  \/ Overview
  \/ Rerun

Spec == Init /\ [][Next]_vars

(***************************************************************************)
(* The detail page against a provider and an endpoint that answer every    *)
(* attempt of a call alike                                                 *)
(***************************************************************************)
\* line 796: the whole call of get_fund_data_v2
FetchAll ==
  /\ pc = "idle"
  /\ runs = 0
  /\ runs' = 1
  /\ start' = since[code]
  /\ \E resp \in HistResponses :
       LET l == hist_loop(Loop0, resp)
           t == get_fund_data_v2(cache, code, resp)
       IN /\ lp' = [lp EXCEPT !["hist"] = l]
          /\ raw' = IF l.out = "ok" THEN resp.tab ELSE NoTable
          /\ hist' = t
          /\ exc' = t.raised
          /\ cache' = cache_store(cache, code, t)
          /\ since' = [since EXCEPT ![code] = "called"]
  /\ pc' = "one"
  /\ UNCHANGED <<code, rt_data, page, row, all_est_df, quoted, bvars, pvars>>

\* lines 799-813: the whole call of get_realtime_fund_one; when it fails the
\* bulk snapshot, asked next, has no row for the code
QuoteAll ==
  /\ pc = "one"
  /\ \E resp \in OneResponses :
       LET l == one_loop(Loop0, resp)
       IN /\ lp' = [lp EXCEPT !["one"] = l]
          /\ rt_data' = IF l.out = "ok" THEN [has |-> TRUE, q |-> resp.q]
                        ELSE NoQuote
  /\ pc' = "render"
  /\ UNCHANGED <<cache, since, code, start, runs, raw, hist, exc, page, row, all_est_df, quoted, bvars, pvars>>

NextData ==
  \/ FetchAll
  \/ QuoteAll
  \/ Render
  \/ Overview

SpecData == Init /\ [][NextData]_vars

(***************************************************************************)
(* The overview page: two pools of at most max_workers tasks               *)
(***************************************************************************)
\* line 388 and the submits of line 332: every code a pending task
InitBatch ==
  /\ Shared0
  /\ DetailIdle
  /\ PoolIdle
  /\ codes \in SUBSET Codes \ {{}}
  /\ \E src \in [Codes -> BatchPairs] :
       /\ hist_src = [c \in Codes |-> IF c \in codes THEN src[c].hist ELSE NoHist]
       /\ rt_src = [c \in Codes |-> IF c \in codes THEN src[c].one ELSE NoOne]
  /\ phase = "rt_pool"
  /\ pending = codes
  /\ running = {}
  /\ results = <<>>
  /\ est_map = [c \in Codes |-> NoEst]
  /\ stats_list = <<>>
  /\ final_df = <<>>

\* an executor that starts a thread for every submitted task
no_cap(a) == TRUE

\* ThreadPoolExecutor(max_workers=20) (lines 331, 521): a submitted task is
\* started when fewer than max_workers threads are busy
has_free_worker(a) == a < max_workers

\* a submitted task waits and a worker of the pool is free
worker_free ==
  /\ phase \in {"rt_pool", "hist_pool"}
  /\ has_free_worker(Cardinality(running))
  /\ pending # {}

\* as_completed has a future to yield (lines 333, 527)
task_running(p) == phase = p /\ running # {}

\* the with-block of the pool p is left: every future was collected
pool_drained(p) == phase = p /\ pending = {} /\ running = {}

\* a free worker of the pool takes a submitted task (lines 331, 521)
StartTask ==
  /\ worker_free
  /\ \E c \in pending :
       /\ pending' = pending \ {c}
       /\ running' = running \cup {c}
  /\ UNCHANGED <<cache, since, exc, dvars, pvars, codes, hist_src, rt_src, phase,
                 results, est_map, stats_list, final_df>>

\* lines 333-339: a get_realtime_fund_one task completes and is collected
FinishOne ==
  /\ task_running("rt_pool")
  /\ \E c \in running :
       /\ running' = running \ {c}
       /\ results' = keep_result(results, c, rt_src[c])
  /\ UNCHANGED <<cache, since, exc, dvars, pvars, codes, hist_src, rt_src, phase,
                 pending, est_map, stats_list, final_df>>

\* lines 341-345 and 409-524: the first pool is drained; est_map is built
\* and every code is submitted to the second pool
BuildEstMap ==
  /\ pool_drained("rt_pool")
  /\ est_map' = [c \in Codes |->
                   IF Matches(results, c) = {} THEN NoEst
                   ELSE est_of(results[Last(Matches(results, c))].q)]
  /\ phase' = "hist_pool"
  /\ pending' = codes
  /\ UNCHANGED <<cache, since, exc, dvars, pvars, codes, hist_src, rt_src, running,
                 results, stats_list, final_df>>

\* lines 527-531: a fetch_single_fund_stats task completes and is collected
FinishStats ==
  /\ task_running("hist_pool")
  /\ \E c \in running :
       LET t == get_fund_data_v2(cache, c, hist_src[c])
       IN /\ running' = running \ {c}
          /\ cache' = cache_store(cache, c, t)
          /\ since' = [since EXCEPT ![c] = "called"]
          /\ exc' = (exc \/ t.raised)
          /\ stats_list' =
               collect_stats(stats_list, fetch_single_fund_stats(c, est_map[c], t))
  /\ UNCHANGED <<dvars, pvars, codes, hist_src, rt_src, phase, pending, results,
                 est_map, final_df>>

\* lines 533-612: the second pool is drained; the joins and the advice
Finalize ==
  /\ pool_drained("hist_pool")
  /\ final_df' = final_rows(SetToSeq(codes), results, stats_list)
  /\ phase' = "done"
  /\ UNCHANGED <<cache, since, exc, dvars, pvars, codes, hist_src, rt_src, pending,
                 running, results, est_map, stats_list>>

NextBatch ==
  \/ StartTask
  \/ FinishOne
  \/ BuildEstMap
  \/ FinishStats
  \/ Finalize

SpecBatch == InitBatch /\ [][NextBatch]_vars

(***************************************************************************)
(* The two pools of the overview with the fetches counted, for inputs      *)
(* larger than a pool (lines 325-345, 520-534)                             *)
(***************************************************************************)
InitPool ==
  /\ Shared0
  /\ DetailIdle
  /\ codes = {}
  /\ hist_src = [c \in Codes |-> NoHist]
  /\ rt_src = [c \in Codes |-> NoOne]
  /\ phase = "rt_pool"
  /\ pending = {}
  /\ running = {}
  /\ results = <<>>
  /\ est_map = [c \in Codes |-> NoEst]
  /\ stats_list = <<>>
  /\ final_df = <<>>
  /\ n_codes \in 1..MaxTasks
  /\ queued = n_codes
  /\ active = 0
  /\ collected = 0

pool_vars == <<cache, since, exc, dvars, codes, hist_src, rt_src, pending,
               running, results, est_map, stats_list, final_df, n_codes>>

\* a worker thread takes the next submitted fetch (lines 331, 521)
StartFetch ==
  /\ phase \in {"rt_pool", "hist_pool"}
  /\ queued > 0
  /\ has_free_worker(active)
  /\ queued' = queued - 1
  /\ active' = active + 1
  /\ UNCHANGED <<pool_vars, phase, collected>>

\* a fetch returns and as_completed yields its future (lines 333, 527)
FinishFetch ==
  /\ phase \in {"rt_pool", "hist_pool"}
  /\ active > 0
  /\ active' = active - 1
  /\ collected' = collected + 1
  /\ UNCHANGED <<pool_vars, phase, queued>>

\* the first with-block is left and every code is submitted to the second
\* pool (lines 341-345, 409-524)
SecondPool ==
  /\ phase = "rt_pool"
  /\ queued = 0
  /\ active = 0
  /\ phase' = "hist_pool"
  /\ queued' = n_codes
  /\ collected' = 0
  /\ UNCHANGED <<pool_vars, active>>

\* the second with-block is left (line 533)
PoolsDone ==
  /\ phase = "hist_pool"
  /\ queued = 0
  /\ active = 0
  /\ phase' = "done"
  /\ UNCHANGED <<pool_vars, queued, active, collected>>

NextPool ==
  \/ StartFetch
  \/ FinishFetch
  \/ SecondPool
  \/ PoolsDone

\* the executor's threads run and every fetch returns: its attempts are
\* bounded (a request that never answers is left out)
SpecPool ==
  /\ InitPool
  /\ [][NextPool]_vars
  /\ WF_vars(StartFetch)
  /\ WF_vars(FinishFetch)
  /\ WF_vars(SecondPool)
  /\ WF_vars(PoolsDone)

(***************************************************************************)
(* Claims                                                                  *)
(***************************************************************************)
AfterHist == {"one", "bulk", "render", "done"}

HasSeries(t) == ~t.df.none /\ t.df.rows # <<>>

Drained == phase = "done" \/ pool_drained("hist_pool")

\* C1: after all dispatched fetches of the overview's batch completed, the
\* collected statistics (and the joined table) hold every input code exactly
\* once, whichever fetches failed and in whatever order they completed; at no
\* time is a code collected twice or a foreign code collected.
C1_EveryCodeOnce ==
  /\ \A i \in 1..Len(stats_list) :
       /\ stats_list[i].code \in codes
       /\ \A j \in 1..Len(stats_list) :
            stats_list[i].code = stats_list[j].code => i = j
  /\ Drained =>
       /\ Len(stats_list) = Cardinality(codes)
       /\ \A c \in codes : Cardinality(Matches(stats_list, c)) = 1
  /\ phase = "done" =>
       /\ Len(final_df) = Cardinality(codes)
       /\ \A c \in codes : Cardinality(Matches(final_df, c)) = 1

C1_Witness ==
  /\ phase = "done"
  /\ Len(stats_list) >= 2
  /\ stats_list[1].code > stats_list[2].code
  /\ ~stats_list[1].latest.has
  /\ stats_list[2].latest.has

HistFails(b) == b.kind # "table" \/ b.tab.rows = <<>>

OwnRows(c) ==
  LET t == hist_src[c].tab
      rc == resolve_columns(t.cols)
  IN IF hist_src[c].kind = "table" /\ rc.ok THEN clean(t.rows, rc.d, rc.v)
     ELSE <<>>

\* the series the overview derives the bands of code c from: its own cleaned
\* rows, with its own quote appended when that quote is a number and the
\* history ends before today
OwnSeries(c) ==
  LET rows == OwnRows(c)
      e == IF rt_src[c].kind = "ok" THEN est_of(rt_src[c].q) ELSE NoEst
  IN IF e.has /\ rows[Len(rows)].date < Today
     THEN Append(rows, [date |-> Today, value |-> e.v])
     ELSE rows

\* the guard of some action of the batch holds; every action assigns total
\* expressions, so its guard is its enabling condition
CanStep ==
  \/ worker_free
  \/ task_running("rt_pool") \/ pool_drained("rt_pool")
  \/ task_running("hist_pool") \/ pool_drained("hist_pool")

\* the number of steps a batch still has to take
StepsLeft ==
  LET pool == 2 * Cardinality(pending) + Cardinality(running) + 1 IN
  IF phase = "rt_pool" THEN pool + 2 * Cardinality(codes) + 1
  ELSE IF phase = "hist_pool" THEN pool
  ELSE 0

\* the rows of a finished batch: no exception escaped, failing codes carry
\* no bands, succeeding codes carry the band of their own series
C2_RowsIsolated ==
  /\ ~exc
  /\ phase = "done" =>
       \A i \in 1..Len(final_df) :
         LET r == final_df[i]
             c == r.code
         IN /\ HistFails(hist_src[c]) =>
                 /\ r.advice = "InsufficientData"
                 /\ r.UB = "None" /\ r.LB = "None"
                 /\ ~r.has_raw
            /\ Len(OwnRows(c)) >= 20 =>
                 /\ r.has_raw
                 /\ r.UB = "text" /\ r.LB = "text"
                 /\ r.ub_raw.k = "win"
                 /\ r.ub_raw = rolling(OwnSeries(c), Len(OwnSeries(c)))

\* C2: a batch in which some codes' historical fetches always fail and the
\* others always succeed runs to completion with no exception reaching the
\* page; a failing code's row carries the advice "insufficient data" and no
\* band values; a succeeding code with at least 20 clean points carries the
\* band of its own series, whatever its siblings did.
C2_PartialFailureIsolated ==
  /\ []C2_RowsIsolated
  /\ [](phase # "done" => CanStep)
  /\ [][StepsLeft' < StepsLeft]_vars

C2_Witness ==
  /\ phase = "done"
  /\ \E c \in codes : HistFails(hist_src[c]) /\ rt_src[c].kind = "ok"
  /\ \E c \in codes : Len(OwnRows(c)) >= 20 /\ rt_src[c].kind = "exc"
  /\ \E i \in 1..Len(final_df) : final_df[i].ub_raw.k = "win"

\* C3: get_fund_data_v2 never raises to its caller, and every failure (no
\* usable series returned) is reported in the error field of the triple.
C3_NeverRaisesErrorsReported ==
  /\ ~exc
  /\ pc \in AfterHist => (HasSeries(hist) \/ hist.err # "None")

\* C4: on completion of a historical fetch exactly one holds: a non-empty
\* series with no error, or an error with no non-empty series.
C4_ExactlyOneSeriesOrError ==
  pc \in AfterHist =>
    \/ HasSeries(hist) /\ hist.err = "None"
    \/ ~HasSeries(hist) /\ hist.err # "None"

\* C5: each of the three retry loops invokes the transport at most 3 times,
\* makes no attempt after the first usable response, and fails only after
\* exactly 3 unsuccessful attempts.
C5_RetryBounded ==
  \A n \in {"hist", "one", "bulk"} :
    /\ lp[n].calls <= 3
    /\ lp[n].out = "none" => lp[n].calls = lp[n].fails /\ lp[n].calls < 3
    /\ lp[n].out = "ok" => lp[n].calls = lp[n].fails + 1
    /\ lp[n].out = "fail" => lp[n].calls = 3 /\ lp[n].fails = 3

C5_Witness ==
  /\ pc = "done"
  /\ lp["hist"].out = "ok" /\ lp["hist"].calls = 2
  /\ lp["one"].out = "fail"
  /\ lp["bulk"].out = "ok" /\ lp["bulk"].calls = 3

\* C6: when the historical fetch succeeded and every real-time source failed,
\* the detail page is produced without error, with the historical series
\* unchanged and the bands and signal of the latest historical point (no
\* bands and InsufficientData when that point has none).
C6_RealtimeFailureFallsBack ==
  (pc = "done" /\ HasSeries(hist) /\ hist.err = "None" /\ ~rt_data.has) =>
    LET latest == hist.df.rows[Len(hist.df.rows)] IN
    /\ page.shown = "ok"
    /\ page.rows = hist.df.rows
    /\ page.curr_val = latest.value
    /\ IF hist.df.has_ub /\ latest.band.k = "win"
       THEN page.band = latest.band /\ page.signal = latest.sig
       ELSE page.band.k # "win" /\ page.signal = "InsufficientData"

C8_ShortSeriesInsufficient ==
  /\ pc \in AfterHist =>
       \A i \in 1..Len(hist.df.rows) :
         i < 20 => /\ hist.df.rows[i].band.k = "nan"
                   /\ hist.df.rows[i].sig \notin {"Sell", "Buy", "Hold"}
  /\ (pc = "done" /\ page.shown = "ok" /\ Len(page.rows) < 20) =>
       /\ page.band.k # "win"
       /\ page.signal = "InsufficientData"

Classify(v, b) ==
  IF GtUB(v, b) THEN "Sell" ELSE IF LtLB(v, b) THEN "Buy" ELSE "Hold"

C10_OutOfRangeRejected ==
  pc \in AfterHist =>
    \A i \in 1..Len(hist.df.rows) :
      hist.df.rows[i].value > 1 /\ hist.df.rows[i].value < 2000

\* C11: in every retry loop, while a further attempt follows, every failed
\* attempt so far was followed by a delay, whatever the kind of failure.
C11_DelayBetweenAttempts ==
  \A n \in {"hist", "one", "bulk"} :
    lp[n].out = "none" => lp[n].slept = lp[n].fails

\* C11 as amended: get_all_fund_estimation waits after every failed attempt,
\* get_realtime_fund_one after the attempts that raised and no others,
\* fetch_with_retry never.
C11_DelaysAsCoded ==
  /\ lp["bulk"].slept = lp["bulk"].fails
  /\ lp["one"].slept = lp["one"].excs
  /\ lp["hist"].slept = 0

C11_Witness ==
  /\ pc = "done"
  /\ lp["hist"].fails = 2 /\ lp["hist"].excs = 1 /\ lp["hist"].out = "ok"
  /\ lp["one"].out = "fail" /\ lp["one"].excs = 1
  /\ lp["bulk"].out = "ok" /\ lp["bulk"].fails = 2 /\ lp["bulk"].excs = 0

\* C12: the quote's sources are consulted in the order single-fund
\* endpoint, bulk snapshot, last cached value: the bulk endpoint is called
\* only after the single-fund endpoint failed, and when every live source
\* failed while a quote of an earlier run is still held, that quote is used.
C12_SourcesInOrder ==
  /\ lp["bulk"].calls > 0 => lp["one"].out = "fail"
  /\ (pc \in {"render", "done"} /\ quoted) => rt_data.has

\* C12 as amended: the two live sources are asked in order, the bulk
\* endpoint only after the single-fund endpoint failed; a quote on the page
\* comes from one of them in this run, and when both failed the page has no
\* quote, whatever an earlier run obtained.
C12_LiveSourcesInOrder ==
  /\ lp["bulk"].calls > 0 => lp["one"].out = "fail"
  /\ rt_data.has => (lp["one"].out = "ok" \/ lp["bulk"].out = "ok")
  /\ (lp["one"].out = "fail" /\ lp["bulk"].out = "fail") => ~rt_data.has

C12_Witness ==
  /\ pc = "done"
  /\ quoted
  /\ lp["one"].out = "fail"
  /\ lp["bulk"].out = "fail"
  /\ page.shown = "ok"
  /\ ~rt_data.has

C14_OnlySuccessCached ==
  /\ \A c \in Codes : cache[c].has => cache[c].val.err = "None"
  /\ (pc \in AfterHist /\ start = "called" /\ hist.err # "None")
       => lp["hist"].calls >= 1

\* C15: the returned series is strictly increasing by date, with at most
\* one point for a date.
C15_StrictlyIncreasing ==
  (pc \in AfterHist /\ ~hist.df.none) =>
    \A i \in 1..(Len(hist.df.rows) - 1) :
      hist.df.rows[i].date < hist.df.rows[i + 1].date

\* C16: the point for today is appended, on the overview and on the detail
\* page alike, only when the last historical date is before today and the
\* quote's value is positive; otherwise the series and the bands are the
\* historical ones. An appended point is the only one, it carries the quote's
\* value, and the historical points are as they were.
C16_SpliceOnlyPositive ==
  (pc = "done" /\ hist.err = "None" /\ HasSeries(hist)) =>
    LET n == Len(hist.df.rows)
        last == hist.df.rows[n]
        f == float(rt_data.q.gsz)
        may == last.date < Today /\ rt_data.has /\ f.ok /\ f.v > 0
    IN /\ ~may => page.rows = hist.df.rows
       /\ page.rows # hist.df.rows =>
            /\ Len(page.rows) = n + 1
            /\ page.rows[n + 1].date = Today
            /\ page.rows[n + 1].value = f.v
            /\ \A i \in 1..n : /\ page.rows[i].date = hist.df.rows[i].date
                                /\ page.rows[i].value = hist.df.rows[i].value
       /\ \A k \in 1..Len(row) :
            LET est == est_of([gsz |-> row[k].gsz])
            IN ~(last.date < Today /\ est.has /\ est.v > 0) =>
                 /\ row[k].latest.v = last.value
                 /\ row[k].ub_raw = IF hist.df.has_ub THEN last.band ELSE NaNBand

\* C17: the fetches in flight in a pool never exceed the cap of 20, whatever
\* the number of codes; a fetch is started only while fewer than 20 are in
\* flight, so the ones beyond the cap start as earlier ones complete; and
\* every submitted fetch is run and collected.
C17_PoolCapped ==
  /\ [](active <= 20)
  /\ [](phase \in {"rt_pool", "hist_pool"}
         => queued + active + collected = n_codes)
  /\ [][queued' < queued
         => (active < 20 /\ queued' = queued - 1 /\ active' = active + 1)]_vars
  /\ <>(phase = "done" /\ collected = n_codes /\ queued = 0 /\ active = 0)

C17_Witness ==
  /\ n_codes > 20
  /\ phase = "hist_pool"
  /\ active = 20
  /\ queued > 0
  /\ collected > 0

\* the table's column named as the value holds 0, 1, 2, ... and column k
\* holds numbers in the price range 0.01 to 20
IndexedWithPrices(tab, k) ==
  /\ Len(tab.rows) >= 3
  /\ InCols(renamed(tab.cols), "date")
  /\ InCols(renamed(tab.cols), "value")
  /\ k \in 1..Len(tab.cols)
  /\ k # IndexOf(renamed(tab.cols), "value")
  /\ \A i \in 1..Len(tab.rows) :
       /\ tab.rows[i][IndexOf(renamed(tab.cols), "value")] = Num(100 * (i - 1))
       /\ tab.rows[i][k].k = "num"
       /\ tab.rows[i][k].v \in 1..2000

\* C18: when the column selected by name as the value holds the index
\* sequence 0, 1, 2, ... and another column holds plausible prices, the
\* series takes its values from the price column.
C18_PriceColumnUsed ==
  \A k \in 1..3 :
    (pc \in AfterHist /\ IndexedWithPrices(raw, k)) =>
      /\ hist.err = "None"
      /\ \A i \in 1..Len(hist.df.rows) :
           \E j \in 1..Len(raw.rows) :
             /\ to_datetime(raw.rows[j][IndexOf(renamed(raw.cols), "date")])
                  = Val(hist.df.rows[i].date)
             /\ raw.rows[j][k] = Num(hist.df.rows[i].value)

\* C18 as amended: also then the series takes its values from the column
\* selected by name: every point carries the date and the index value of one
\* row of the table, and no row is lost.
C18_NamedColumnUsed ==
  \A k \in 1..3 :
    (pc \in AfterHist /\ IndexedWithPrices(raw, k)) =>
      /\ hist.err = "None"
      /\ Len(hist.df.rows) =
           Cardinality({ j \in 1..Len(raw.rows) :
             ~to_datetime(raw.rows[j][IndexOf(renamed(raw.cols), "date")]).na })
      /\ \A i \in 1..Len(hist.df.rows) :
           \E j \in 1..Len(raw.rows) :
             /\ to_datetime(raw.rows[j][IndexOf(renamed(raw.cols), "date")])
                  = Val(hist.df.rows[i].date)
             /\ hist.df.rows[i].value = 100 * (j - 1)

C18_Witness ==
  /\ pc = "done"
  /\ IndexedWithPrices(raw, 3)
  /\ Len(hist.df.rows) = window
  /\ hist.df.rows[window].value = 100 * (window - 1)
  /\ page.shown = "ok"

\* C19: for the same code, the same history and the same quote, the
\* overview's advice and the detail page's recommendation are of the same
\* class (Sell, Buy, Hold or InsufficientData).
C19_SameClassOnBothPages ==
  (pc = "done" /\ hist.err = "None" /\ HasSeries(hist)) =>
    \A k \in 1..Len(row) :
      (row[k].gsz = rt_data.q.gsz /\ row[k].dwjz = rt_data.q.dwjz)
        => row[k].advice = page.signal

====
